---- MODULE Spec2Model ----
(***************************************************************************)
(* Model of the grid alignment, curve normalisation and outlier rejection  *)
(* functions of xas/analysis.py and xas/outliers.py.                       *)
(*                                                                         *)
(* Numbers: floating point values are modelled as exact rationals <<n,d>>  *)
(* (d > 0, lowest terms).  The IEEE results of a division by zero are the  *)
(* extended values NaN and Inf.  Sequences are 1-based: row/scan i of the  *)
(* model is index i-1 of the Python code.                                  *)
(***************************************************************************)
EXTENDS Integers, Sequences, FiniteSets, TLC

VARIABLES
    pc,          \* position of the caller: which call has returned
    dfs,         \* the scan group handed to the grid functions
    master_idx,  \* the master index the caller designates (1-based)
    dfs_out,     \* outcome of standardize_energy_grid(dfs)
    dfs_again,   \* outcome of standardize_energy_grid on the aligned group
    ret,         \* outcome of outlier_rejection
    data,        \* the data matrix handed to the matrix functions
    data_out,    \* result of prenormalize_data(data)
    scored,      \* the matrix the chi-square scorer was given
    mod_chisq,   \* result of calc_mod_chisq
    labels,      \* result of modified_chisq_rejection / MCS_into_LOF
    avg,         \* mean of the original rows labelled inlier
    est,         \* the LocalOutlierFactor estimator object
    threshold,   \* the threshold handed to the scorers
    exc,         \* the exception the last matrix call ended in, or "none"
    trim         \* outcome of check_for_outliers

vars == <<pc, dfs, master_idx, dfs_out, dfs_again, ret, data, data_out,
          scored, mod_chisq, labels, avg, est, threshold, exc, trim>>

----------------------------------------------------------------------------
(* Bounds of the inputs *)

MaxScans == 2      \* scans in a group
MaxPts   == 2      \* points of a scan
MaxCoord == 3      \* coordinates are drawn from 1..MaxCoord
MaxMu    == 1      \* channel values of a scan are drawn from 0..MaxMu
MaxRows  == 3      \* rows (curves) of a data matrix
MaxCols  == 3      \* columns (points) of a data matrix
MaxCells == 6      \* rows * columns of a data matrix
MaxVal   == 2      \* matrix entries are drawn from 0..MaxVal
MaxTrimRows  == 5  \* rows of a matrix handed to the trimming functions
MaxTrimCols  == 2  \* columns of such a matrix
MaxTrimCells == 6  \* rows * columns of such a matrix
MaxTrimVal   == 2  \* its entries are drawn from 0..MaxTrimVal

----------------------------------------------------------------------------
(* Exact rational arithmetic *)

Abs(x) == IF x < 0 THEN -x ELSE x

RECURSIVE GCD(_, _)
GCD(a, b) == IF b = 0 THEN a ELSE GCD(b, a % b)

Rat(n, d) ==
    LET s == IF d < 0 THEN -1 ELSE 1
        g == GCD(Abs(n), Abs(d))
    IN  <<(s * n) \div g, (s * d) \div g>>

Int2R(k) == <<k, 1>>
RAdd(a, b) == Rat(a[1] * b[2] + b[1] * a[2], a[2] * b[2])
RSub(a, b) == Rat(a[1] * b[2] - b[1] * a[2], a[2] * b[2])
RMul(a, b) == Rat(a[1] * b[1], a[2] * b[2])
RDiv(a, b) == Rat(a[1] * b[2], a[2] * b[1])
RLt(a, b)  == a[1] * b[2] < b[1] * a[2]
RLe(a, b)  == a[1] * b[2] <= b[1] * a[2]
RAbs(a)    == <<Abs(a[1]), a[2]>>
RZero      == <<0, 1>>

\* an array built element by element, held as a sequence of values
Arr(f) == f \o <<>>

RECURSIVE RSum(_)
RSum(s) == IF s = <<>> THEN RZero ELSE RAdd(Head(s), RSum(Tail(s)))

----------------------------------------------------------------------------
(* np.interp, as numpy computes it for sample arrays of at most 4 points *)

\* the index j (0-based j+1 here) with arr[j] <= key < arr[j+1];
\* 0 stands for numpy's -1 and Len(arr)+1 for numpy's len
binary_search_with_guess(key, arr) ==
    LET n == Len(arr) IN
    IF key > arr[n] THEN n + 1
    ELSE IF key < arr[1] THEN 0
    ELSE LET stop == {i \in 2..n : key < arr[i] /\ \A k \in 2..(i-1) : key >= arr[k]}
         IN  IF stop = {} THEN n ELSE (CHOOSE i \in stop : TRUE) - 1

interp_at(x, xp, fp) ==
    LET n == Len(xp) IN
    IF n = 1 THEN fp[1]
    ELSE LET j == binary_search_with_guess(x, xp) IN
         IF j = 0 THEN fp[1]
         ELSE IF j = n + 1 THEN fp[n]
         ELSE IF j = n THEN fp[n]
         ELSE IF xp[j] = x THEN fp[j]
         ELSE LET slope == RDiv(RSub(fp[j+1], fp[j]), Int2R(xp[j+1] - xp[j]))
              IN  RAdd(RMul(slope, Int2R(x - xp[j])), fp[j])

np_interp(x, xp, fp) == Arr([i \in 1..Len(x) |-> interp_at(x[i], xp, fp)])

----------------------------------------------------------------------------
(* Scans and scan groups.  A scan is a DataFrame: a function from its      *)
(* column names to columns of one length; "energy" is the coordinate.      *)

energy_key == "energy"

Columns(df) == DOMAIN df

\* the returned group, or the exception the call ends in
Returned(v) == [raised |-> "none", value |-> v]
Raised(e)   == [raised |-> e, value |-> <<>>]

\* one iteration of the loop over dfs[1:]
AlignOne(df, energy_master) ==
    [c \in Columns(df) |->
        IF c = energy_key THEN energy_master
        ELSE np_interp(energy_master, df[energy_key], df[c])]

\* np.interp raises ValueError on an empty array of sample points
InterpFails(df) == Len(df[energy_key]) = 0 /\ Columns(df) # {energy_key}

standardize_energy_grid(g) ==
    IF Len(g) = 0 THEN Raised("IndexError")
    ELSE IF \E i \in 2..Len(g) : InterpFails(g[i]) THEN Raised("ValueError")
    ELSE Returned([i \in 1..Len(g) |->
            IF i = 1 THEN g[1] ELSE AlignOne(g[i], g[1][energy_key])])

----------------------------------------------------------------------------
(* The input scan groups *)

ScansOfLen(n) ==
    {[c \in {energy_key} |-> Arr(e)] : e \in [1..n -> 1..MaxCoord]}
    \cup {[c \in {energy_key, "mut"} |-> IF c = energy_key THEN Arr(e) ELSE Arr(m)] :
            e \in [1..n -> 1..MaxCoord],
            m \in [1..n -> {Int2R(v) : v \in 0..MaxMu}]}

Scans == UNION {ScansOfLen(n) : n \in 0..MaxPts}

StrictlyIncreasing(e) == \A i \in 1..(Len(e) - 1) : e[i] < e[i+1]

ValidScan(df) ==
    /\ Len(df[energy_key]) >= 2
    /\ StrictlyIncreasing(df[energy_key])
    /\ "mut" \in Columns(df)

ValidGroup(g) == Len(g) > 0 /\ \A i \in 1..Len(g) : ValidScan(g[i])


----------------------------------------------------------------------------
(* numpy reductions on matrices (sequences of rows of rationals) *)

NRows(d) == Len(d)
NCols(d) == Len(d[1])
Shape(d) == <<Len(d), IF Len(d) = 0 THEN 0 ELSE Len(d[1])>>

Column(d, j) == Arr([i \in 1..NRows(d) |-> d[i][j]])

CountLt(s, x) == Cardinality({i \in 1..Len(s) : RLt(s[i], x)})
CountLe(s, x) == Cardinality({i \in 1..Len(s) : RLe(s[i], x)})

\* the k-th smallest element of s
Kth(s, k) ==
    s[CHOOSE i \in 1..Len(s) : CountLt(s, s[i]) < k /\ k <= CountLe(s, s[i])]

\* np.median of a one-dimensional array: the middle element, or the mean
\* of the two middle elements
np_median(s) ==
    LET n == Len(s) IN
    IF n % 2 = 1 THEN Kth(s, (n + 1) \div 2)
    ELSE RDiv(RAdd(Kth(s, n \div 2), Kth(s, n \div 2 + 1)), Int2R(2))

\* np.median(data, axis=0)
median_axis0(d) == Arr([j \in 1..NCols(d) |-> np_median(Column(d, j))])

\* the subsequence of s at the indices where keep holds, in order
RECURSIVE Mask(_, _)
Mask(s, keep) ==
    IF s = <<>> THEN <<>>
    ELSE (IF Head(keep) THEN <<Head(s)>> ELSE <<>>) \o Mask(Tail(s), Tail(keep))

\* np.mean(rows, axis=0); the mean of no rows is NaN in every column
NoAvg == [nan |-> FALSE, value |-> <<>>]

mean_axis0(rows, ncols) ==
    IF Len(rows) = 0 THEN [nan |-> TRUE, value |-> <<>>]
    ELSE [nan |-> FALSE,
          value |-> Arr([j \in 1..ncols |->
                        RDiv(RSum(Column(rows, j)), Int2R(Len(rows)))])]

----------------------------------------------------------------------------
(* prenormalize_data *)

\* lstsq_fit without the fit: the row is passed through unchanged
lstsq_fit_unfitted(x, y) == x

\* lstsq_fit on the basis [x], without the column of ones
lstsq_fit_no_intercept(x, y) ==
    LET Sxx == RSum(Arr([j \in 1..Len(x) |-> RMul(x[j], x[j])]))
        Sxy == RSum(Arr([j \in 1..Len(x) |-> RMul(x[j], y[j])]))
    IN  IF Sxx = RZero THEN Arr([j \in 1..Len(x) |-> RZero])
        ELSE Arr([j \in 1..Len(x) |-> RMul(RDiv(Sxy, Sxx), x[j])])

\* basis @ c for c = np.linalg.lstsq(basis, y), basis = [1, x]: the least
\* squares fit a + b*x of y; when x is constant the basis has rank 1 and
\* the minimum-norm solution fits the mean of y
lstsq_fit(x, y) ==
    LET m    == Int2R(Len(x))
        Sx   == RSum(x)
        Sy   == RSum(y)
        Sxx  == RSub(RMul(m, RSum(Arr([j \in 1..Len(x) |-> RMul(x[j], x[j])]))),
                     RMul(Sx, Sx))
        Sxy  == RSub(RMul(m, RSum(Arr([j \in 1..Len(x) |-> RMul(x[j], y[j])]))),
                     RMul(Sx, Sy))
        xbar == RDiv(Sx, m)
        ybar == RDiv(Sy, m)
    IN  IF Sxx = RZero THEN Arr([j \in 1..Len(x) |-> ybar])
        ELSE LET b == RDiv(Sxy, Sxx)
                 a == RSub(ybar, RMul(b, xbar))
             IN  Arr([j \in 1..Len(x) |-> RAdd(a, RMul(b, x[j]))])

\* prenormalize_data without the copy of the first row into data_out
prenormalize_data_first_row_zero(d) ==
    Arr([i \in 1..NRows(d) |->
            IF i = 1 THEN Arr([j \in 1..NCols(d) |-> RZero])
            ELSE lstsq_fit(d[i], d[1])])

prenormalize_data(d) ==
    Arr([i \in 1..NRows(d) |-> IF i = 1 THEN d[1] ELSE lstsq_fit(d[i], d[1])])

----------------------------------------------------------------------------
(* calc_mod_chisq and modified_chisq_rejection *)

\* A score is an extended value: finite, NaN or Inf.  mad is
\* median(|data - median|) / 0.67449, so every finite score is
\* 0.67449^2 * v for the rational v = mean_j (dev_ij / median|dev|)^2; the
\* model holds a finite score as v (0.67449^2 = 4549367601 / 10^10 does not
\* fit 32-bit integers) and applies the factor where the score is compared
\* with the threshold.
Fin(v) == [kind |-> "fin", val |-> v]
NaN    == [kind |-> "nan", val |-> RZero]
Inf    == [kind |-> "inf", val |-> RZero]

\* data - np.median(data, axis=0)
Deviations(d) ==
    LET med == median_axis0(d)
    IN  Arr([i \in 1..NRows(d) |->
                Arr([j \in 1..NCols(d) |-> RSub(d[i][j], med[j])])])

\* np.median(np.abs(data - np.median(data, axis=0)).ravel())
MedianAbsDev(d) ==
    LET dev == Deviations(d)
        m   == NCols(d)
    IN  np_median(Arr([k \in 1..(NRows(d) * m) |->
                      RAbs(dev[((k - 1) \div m) + 1][((k - 1) % m) + 1])]))

\* (x / mad) ** 2 in IEEE arithmetic, in units of 0.67449^2
KsiSquared(x, mdev) ==
    IF mdev = RZero THEN (IF x = RZero THEN NaN ELSE Inf)
    ELSE LET q == RDiv(x, mdev) IN Fin(RMul(q, q))

\* 1 / n_pts * np.sum(ksi**2, axis=1) for one row
RowScore(ksi2) ==
    IF \E j \in 1..Len(ksi2) : ksi2[j].kind = "nan" THEN NaN
    ELSE IF \E j \in 1..Len(ksi2) : ksi2[j].kind = "inf" THEN Inf
    ELSE Fin(RDiv(RSum(Arr([j \in 1..Len(ksi2) |-> ksi2[j].val])),
                  Int2R(Len(ksi2))))

calc_mod_chisq(d) ==
    LET dev  == Deviations(d)
        mdev == MedianAbsDev(d)
    IN  Arr([i \in 1..NRows(d) |->
            RowScore(Arr([j \in 1..NCols(d) |-> KsiSquared(dev[i][j], mdev)]))])

\* Natural numbers beyond 32 bits: little-endian
\* sequences of base-10000 digits, used only to compare a score with a
\* threshold
RECURSIVE BigOf(_)
BigOf(n) == IF n = 0 THEN <<>> ELSE <<n % 10000>> \o BigOf(n \div 10000)

RECURSIVE BigTimes(_, _, _)
BigTimes(b, k, carry) ==
    IF b = <<>> \/ k = 0 THEN BigOf(carry)
    ELSE LET v == b[1] * k + carry
         IN  <<v % 10000>> \o BigTimes(Tail(b), k, v \div 10000)

RECURSIVE BigGt(_, _)
BigGt(a, b) ==
    IF Len(a) # Len(b) THEN Len(a) > Len(b)
    ELSE IF a = <<>> THEN FALSE
    ELSE LET n == Len(a)
         IN  IF a[n] # b[n] THEN a[n] > b[n]
             ELSE BigGt(SubSeq(a, 1, n - 1), SubSeq(b, 1, n - 1))

\* score > t for a natural number t:
\* 0.67449^2 * p / q > t  iff  p * 67449^2 > t * q * 100000^2;
\* a comparison with NaN is False
ScoreGt(score, t) ==
    IF score.kind = "nan" THEN FALSE
    ELSE IF score.kind = "inf" THEN TRUE
    ELSE BigGt(BigTimes(BigTimes(BigOf(score.val[1]), 67449, 0), 67449, 0),
               BigTimes(BigTimes(BigTimes(BigOf(score.val[2]), t, 0),
                                 100000, 0), 100000, 0))

DefaultThreshold == 30

modified_chisq_rejection(d, t) ==
    LET chisq == calc_mod_chisq(d)
    IN  Arr([i \in 1..NRows(d) |-> IF ScoreGt(chisq[i], t) THEN -1 ELSE 1])

----------------------------------------------------------------------------
(* MCS_into_LOF.  The LocalOutlierFactor estimator is an object with       *)
(* fit(X) and predict(X): fit stores its training rows, predict returns    *)
(* one label of {-1, +1} per row.  The labels the fitted model predicts    *)
(* are a parameter here; the caller draws them.                            *)

NoEst == [fitted |-> FALSE, X |-> <<>>, predicted_on |-> <<>>,
          prediction |-> <<>>]

LabelVectors(n) == [1..n -> {-1, 1}]

\* MCS_into_LOF with the fallback taken only when no row survives
MCS_into_LOF_fit_one(d, t, prediction) ==
    LET mod_chisq_results == modified_chisq_rejection(d, t)
        reduced_data ==
            Mask(d, Arr([i \in 1..NRows(d) |-> mod_chisq_results[i] > 0]))
    IN  IF Len(reduced_data) < 1
        THEN [value |-> Arr([i \in 1..NRows(d) |-> 1]), est |-> NoEst]
        ELSE [value |-> prediction,
              est   |-> [fitted |-> TRUE, X |-> reduced_data,
                         predicted_on |-> d, prediction |-> Arr(prediction)]]

MCS_into_LOF(d, t, prediction) ==
    LET mod_chisq_results == modified_chisq_rejection(d, t)
        reduced_data ==
            Mask(d, Arr([i \in 1..NRows(d) |-> mod_chisq_results[i] > 0]))
    IN  IF Len(reduced_data) < 2
        THEN [value |-> Arr([i \in 1..NRows(d) |-> 1]), est |-> NoEst]
        ELSE [value |-> prediction,
              est   |-> [fitted |-> TRUE, X |-> reduced_data,
                         predicted_on |-> d, prediction |-> Arr(prediction)]]

\* np.mean(data[results > 0], axis=0)
inlier_mean(d, results) ==
    mean_axis0(Mask(d, Arr([i \in 1..NRows(d) |-> results[i] > 0])), NCols(d))

----------------------------------------------------------------------------
(* scipy.stats.trimboth, check_for_outliers and fit_trimmed *)

\* int(proportiontocut * nobs) for a proportion <<n, d>>
LowerCut(proportiontocut, nobs) ==
    (proportiontocut[1] * nobs) \div proportiontocut[2]

TrimTooBig(d, proportiontocut) ==
    LowerCut(proportiontocut, NRows(d)) >=
        NRows(d) - LowerCut(proportiontocut, NRows(d))

\* trimboth(a, proportiontocut, axis=0): every column is partitioned on its
\* own and int(proportiontocut * nobs) values are sliced off at each end;
\* the values kept in a column are held in ascending order
trimboth(d, proportiontocut) ==
    LET lowercut == LowerCut(proportiontocut, NRows(d))
        uppercut == NRows(d) - lowercut
    IN  Arr([r \in 1..(uppercut - lowercut) |->
            Arr([j \in 1..NCols(d) |-> Kth(Column(d, j), lowercut + r)])])

\* np.std(trim_data, axis=0) ** 2
var_axis0(rows, mean) ==
    Arr([j \in 1..Len(mean) |->
        RDiv(RSum(Arr([r \in 1..Len(rows) |->
                RMul(RSub(rows[r][j], mean[j]), RSub(rows[r][j], mean[j]))])),
             Int2R(Len(rows)))])

\* ((x - trim_mean) / trim_std) ** 2 in IEEE arithmetic
DevSquared(x, mean, var) ==
    IF var = RZero THEN (IF x = mean THEN NaN ELSE Inf)
    ELSE Fin(RDiv(RMul(RSub(x, mean), RSub(x, mean)), var))

\* deviation_from_mean > threshold; a comparison with NaN is False
ExtGt(score, t) ==
    IF score.kind = "nan" THEN FALSE
    ELSE IF score.kind = "inf" THEN TRUE
    ELSE score.val[1] > t * score.val[2]

DefaultTrimFraction == <<1, 5>>
DefaultTrimThreshold == 25

NoTrim == [raised |-> "none", trim_fraction |-> RZero,
           deviation_from_mean |-> <<>>, outliers |-> <<>>]

\* check_for_outliers with trimboth handed proportiontocut
check_for_outliers_cut(all_data, trim_fraction, proportiontocut, t) ==
    IF TrimTooBig(all_data, proportiontocut)
    THEN [raised |-> "ValueError", trim_fraction |-> trim_fraction,
          deviation_from_mean |-> <<>>, outliers |-> <<>>]
    ELSE LET trim_data == trimboth(all_data, proportiontocut)
             trim_mean == mean_axis0(trim_data, NCols(all_data)).value
             trim_var  == var_axis0(trim_data, trim_mean)
             deviation_from_mean ==
                 Arr([i \in 1..NRows(all_data) |->
                     RowScore(Arr([j \in 1..NCols(all_data) |->
                         DevSquared(all_data[i][j], trim_mean[j], trim_var[j])]))])
         IN  [raised |-> "none", trim_fraction |-> trim_fraction,
              deviation_from_mean |-> deviation_from_mean,
              outliers |-> Arr([i \in 1..NRows(all_data) |->
                                  ExtGt(deviation_from_mean[i], t)])]

\* check_for_outliers: trim_fraction itself is cut from each end
check_for_outliers(all_data, trim_fraction, t) ==
    check_for_outliers_cut(all_data, trim_fraction, trim_fraction, t)

\* fit_trimmed: estimator.fit(trimboth(data, trim_fraction / 2))
fit_trimmed(d, trim_fraction) ==
    [fitted |-> TRUE, X |-> trimboth(d, RDiv(trim_fraction, Int2R(2))),
     predicted_on |-> <<>>, prediction |-> <<>>]

----------------------------------------------------------------------------
(* outlier_rejection *)

\* the call of line 160 passes master_idx= to standardize_energy_grid, which
\* has the parameters (dfs, energy_key) only: the call raises TypeError
\* before any channel is processed, and nothing is returned
outlier_rejection(scangroup, uids, channels, m) ==
    [raised |-> "TypeError", average_mus |-> <<>>, results |-> <<>>]

\* uids: one uid string per scan
Uids(g) == Arr([i \in 1..Len(g) |-> i])

NoRet == [raised |-> "none", average_mus |-> <<>>, results |-> <<>>]

----------------------------------------------------------------------------
(* The callers of the grid functions *)

NoCall == Raised("nocall")

GridInit ==
    /\ pc = "start"
    /\ \E n \in 0..MaxScans : dfs \in [1..n -> Scans]
    /\ master_idx \in (IF Len(dfs) = 0 THEN {1} ELSE 1..Len(dfs))
    /\ dfs_out = NoCall
    /\ dfs_again = NoCall
    /\ ret = NoRet
    /\ data = <<>>
    /\ data_out = <<>>
    /\ scored = <<>>
    /\ mod_chisq = <<>>
    /\ labels = <<>>
    /\ avg = NoAvg
    /\ est = NoEst
    /\ threshold = DefaultThreshold
    /\ exc = "none"
    /\ trim = NoTrim

MatrixVars == <<data, data_out, scored, mod_chisq, labels, avg, est,
                threshold, exc, trim>>

\* standardize_energy_grid(dfs), as average_scangroup calls it
Standardize ==
    /\ pc = "start"
    /\ dfs_out' = standardize_energy_grid(dfs)
    /\ pc' = IF dfs_out'.raised = "none" THEN "aligned" ELSE "failed"
    /\ UNCHANGED <<dfs, master_idx, dfs_again, ret, MatrixVars>>

\* aligning the aligned group again
Restandardize ==
    /\ pc = "aligned"
    /\ dfs_again' = standardize_energy_grid(dfs_out.value)
    /\ pc' = "realigned"
    /\ UNCHANGED <<dfs, master_idx, dfs_out, ret, MatrixVars>>

OutlierRejection ==
    /\ pc = "start"
    /\ ret' = outlier_rejection(dfs, Uids(dfs), <<"mut">>, master_idx)
    /\ pc' = "rejected"
    /\ UNCHANGED <<dfs, master_idx, dfs_out, dfs_again, MatrixVars>>

Next == Standardize \/ Restandardize \/ OutlierRejection

Spec == GridInit /\ [][Next]_vars

----------------------------------------------------------------------------
(* Properties of the grid functions and of outlier_rejection *)

Aligned == pc \in {"aligned", "realigned"}

\* C1: for every non-empty group of valid scans and every master index the
\* caller designates, every scan of the aligned group has the coordinate
\* sequence of the master scan, and aligning the aligned group again
\* returns a group equal to it.
C1_AlignedToMaster ==
    (Aligned /\ ValidGroup(dfs)) =>
        /\ \A i \in 1..Len(dfs_out.value) :
              dfs_out.value[i][energy_key] = dfs[master_idx][energy_key]
        /\ pc = "realigned" => dfs_again = dfs_out

InvalidGrid(g) ==
    \/ Len(g) = 0
    \/ \E i \in 1..Len(g) :
          \/ Len(g[i][energy_key]) < 2
          \/ ~StrictlyIncreasing(g[i][energy_key])
          \/ "mut" \notin Columns(g[i])

\* C8: when the group is empty, or a scan's coordinate sequence is not
\* strictly increasing or has fewer than 2 points, or a scan lacks the
\* channel, alignment ends in an error (the code defines no error classes:
\* any raised exception counts as the InvalidGridError outcome) and returns
\* no group.
C8_InvalidGridError ==
    (pc \in {"aligned", "failed"} /\ InvalidGrid(dfs)) =>
        /\ dfs_out.raised # "none"
        /\ dfs_out.value = <<>>

Methods == {"trimmed_lof", "mod_chisq", "combined"}

\* np.array([scan[ch] for scan in scangroup]) of the aligned group
OriginalMatrix(g, ch) ==
    [i \in 1..Len(g) |-> standardize_energy_grid(g).value[i][ch]]

\* C9: outlier_rejection reports, for every channel and each of the three
\* methods, an inlier and an outlier uid list that are disjoint and together
\* hold every input uid once in input order, and an average curve that is
\* the column-wise mean of the original rows of the inlier uids.
C9_Partition ==
    (pc = "rejected" /\ ValidGroup(dfs)) =>
        /\ ret.raised = "none"
        /\ \A ch \in {"mut"} : \A m \in Methods :
              LET r    == ret.results[ch][m]
                  isin == [i \in 1..Len(dfs) |->
                             \E k \in 1..Len(r.inliers) : r.inliers[k] = Uids(dfs)[i]]
                  orig == OriginalMatrix(dfs, ch)
              IN  /\ r.inliers = Mask(Uids(dfs), isin)
                  /\ r.outliers = Mask(Uids(dfs), [i \in 1..Len(dfs) |-> ~isin[i]])
                  /\ ret.average_mus[ch][m] =
                        mean_axis0(Mask(orig, isin), NCols(orig))

\* C10: whatever fails while outlier_rejection runs, the caller receives the
\* per-channel dictionaries, holding for every channel its result or its
\* error.
C10_PartialResults ==
    pc = "rejected" =>
        /\ ret.raised = "none"
        /\ \A ch \in {"mut"} :
              ch \in DOMAIN ret.results /\ ch \in DOMAIN ret.average_mus

----------------------------------------------------------------------------
(* The callers of the matrix functions *)

IntMatrix(rows) ==
    Arr([i \in 1..Len(rows) |-> Arr([j \in 1..Len(rows[i]) |-> Int2R(rows[i][j])])])

Dims == {nm \in (1..MaxRows) \X (1..MaxCols) : nm[1] * nm[2] <= MaxCells}

\* the integer matrices of nm[1] rows and nm[2] columns
RowsOfDim(nm) == [1..nm[1] -> [1..nm[2] -> 0..MaxVal]]

\* four scans of one curve f and a fifth scan 3*f + 10
ScenarioMatrix(f) ==
    IntMatrix(<<f, f, f, f, Arr([j \in 1..Len(f) |-> 3 * f[j] + 10])>>)

Curves(m) == [1..m -> 0..MaxVal]

Thresholds == {0, 1, DefaultThreshold}

MatrixInit ==
    /\ pc = "matrix"
    /\ \/ \E nm \in Dims : \E rows \in RowsOfDim(nm) : data = IntMatrix(rows)
       \/ \E m \in 1..MaxCols : \E f \in Curves(m) : data = ScenarioMatrix(f)
    /\ threshold \in Thresholds
    /\ data_out = <<>>
    /\ scored = <<>>
    /\ mod_chisq = <<>>
    /\ labels = <<>>
    /\ avg = NoAvg
    /\ est = NoEst
    /\ exc = "none"
    /\ trim = NoTrim
    /\ dfs = <<>>
    /\ master_idx = 1
    /\ dfs_out = NoCall
    /\ dfs_again = NoCall
    /\ ret = NoRet

GridVars == <<dfs, master_idx, dfs_out, dfs_again, ret>>

\* data_prenorm = prenormalize_data(data)
Prenormalize ==
    /\ pc = "matrix"
    /\ data_out' = prenormalize_data(data)
    /\ pc' = "normalized"
    /\ UNCHANGED <<data, scored, mod_chisq, labels, avg, est, threshold, exc,
                   GridVars, trim>>

\* the scorer on a matrix d: calc_mod_chisq and modified_chisq_rejection
\* return; a division by a zero mad raises nothing
Score(d) ==
    /\ scored' = d
    /\ mod_chisq' = calc_mod_chisq(d)
    /\ labels' = modified_chisq_rejection(d, threshold)
    /\ exc' = "none"
    /\ pc' = "scored"
    /\ UNCHANGED <<data, data_out, avg, est, threshold, GridVars, trim>>

\* modified_chisq_rejection(data, threshold)
ScoreData == pc = "matrix" /\ Score(data)

\* modified_chisq_rejection(data_prenorm, threshold)
ScoreNormalized == pc = "normalized" /\ Score(data_out)

\* np.mean(data[mcs_results > 0], axis=0): the mean of the original rows
InlierMean ==
    /\ pc = "scored"
    /\ avg' = inlier_mean(data, labels)
    /\ pc' = "averaged"
    /\ UNCHANGED <<data, data_out, scored, mod_chisq, labels, est, threshold,
                   exc, GridVars, trim>>

\* MCS_into_LOF(data, threshold)
Combined ==
    /\ pc = "matrix"
    /\ \E prediction \in LabelVectors(NRows(data)) :
          LET r == MCS_into_LOF(data, threshold, prediction)
          IN  /\ labels' = Arr(r.value)
              /\ est' = r.est
    /\ exc' = "none"
    /\ pc' = "combined"
    /\ UNCHANGED <<data, data_out, scored, mod_chisq, avg, threshold, GridVars, trim>>

MatrixNext ==
    Prenormalize \/ ScoreData \/ ScoreNormalized \/ InlierMean \/ Combined

SpecMatrix == MatrixInit /\ [][MatrixNext]_vars

----------------------------------------------------------------------------
(* Properties of the matrix functions *)

AllOnes(n) == [i \in 1..n |-> 1]

\* rows 1-4 are one curve f and row 5 is 3*f + 10
IsScenario(d) ==
    /\ NRows(d) = 5
    /\ \A i \in 2..4 : d[i] = d[1]
    /\ \A j \in 1..NCols(d) :
          d[5][j] = RAdd(RMul(Int2R(3), d[1][j]), Int2R(10))

\* the scenario, normalised, scored with threshold 30 and averaged
ScenarioDone ==
    /\ pc = "averaged"
    /\ data_out # <<>>
    /\ threshold = DefaultThreshold
    /\ IsScenario(data)

Survivors(d, t) ==
    LET mcs == modified_chisq_rejection(d, t)
    IN  {i \in 1..NRows(d) : mcs[i] = 1}

\* C3: when the chi-square pass leaves fewer than 2 inlier rows the result
\* is one +1 per row, no model is fitted and nothing is raised; otherwise
\* the model is fitted on exactly the inlier rows and its prediction on the
\* full matrix is returned.
C3_Combined ==
    pc = "combined" =>
        /\ exc = "none"
        /\ IF Cardinality(Survivors(data, threshold)) < 2
           THEN /\ labels = AllOnes(NRows(data))
                /\ ~est.fitted
           ELSE /\ est.fitted
                /\ est.X = LET inl == Survivors(data, threshold)
                           IN  Mask(data, Arr([i \in 1..NRows(data) |-> i \in inl]))
                /\ est.predicted_on = data
                /\ labels = est.prediction

C3_Witness ==
    /\ pc = "combined"
    /\ NRows(data) >= 2
    /\ Cardinality(Survivors(data, threshold)) = 1
    /\ labels = AllOnes(NRows(data))

\* C4: when the scaled median absolute deviation of the matrix is 0 the
\* scorer ends in an error (any raised exception counts as the
\* degenerate-distribution error) and returns no scores and no labels.
C4_DegenerateError ==
    (pc = "scored" /\ MedianAbsDev(scored) = RZero) =>
        /\ exc # "none"
        /\ mod_chisq = <<>>
        /\ labels = <<>>

\* C5: when all rows of a matrix of two or more rows are identical every
\* row scores 0 and is labelled inlier.
C5_IdenticalRows ==
    (/\ pc = "scored"
     /\ NRows(scored) >= 2
     /\ \A i \in 1..NRows(scored) : scored[i] = scored[1]) =>
        \A i \in 1..NRows(scored) :
            mod_chisq[i] = Fin(RZero) /\ labels[i] = 1

NormalizeStep == pc = "matrix" /\ pc' = "normalized"

\* C6 as stated: whichever row is the master, the call leaves it unchanged,
\* keeps the shape and does not modify its input.
C6_AnyMasterRow ==
    [][NormalizeStep =>
        /\ data' = data
        /\ Shape(data_out') = Shape(data)
        /\ \A m \in 1..NRows(data) : data_out'[m] = data[m]]_vars

\* C6 amended: the master is always the first row; the call leaves the
\* first row unchanged, keeps the shape and does not modify its input.
C6_FirstRow ==
    [][NormalizeStep =>
        /\ data' = data
        /\ Shape(data_out') = Shape(data)
        /\ \A i \in 1..NRows(data) : Len(data_out'[i]) = NCols(data)
        /\ data_out'[1] = data[1]]_vars

C6_Witness ==
    /\ pc = "normalized"
    /\ NRows(data) >= 2
    /\ data_out # data
    /\ data_out[1] = data[1]

NonConstant(x) == \E j \in 1..Len(x) : x[j] # x[1]

\* x = a + b*y for some a and some b # 0
IsAffineImage(x, y) ==
    \E j, k \in 1..Len(x) :
        /\ y[j] # y[k]
        /\ x[j] # x[k]
        /\ LET b == RDiv(RSub(x[j], x[k]), RSub(y[j], y[k]))
               a == RSub(x[j], RMul(b, y[j]))
           IN  \A l \in 1..Len(x) : x[l] = RAdd(a, RMul(b, y[l]))

\* C7: a row that is an exact affine image a + b*master (b # 0) of a
\* non-constant master row is normalised to the master row.
C7_AffineRecovered ==
    pc = "normalized" =>
        \A i \in 2..NRows(data) :
            (NonConstant(data[1]) /\ IsAffineImage(data[i], data[1]))
                => data_out[i] = data[1]

C7_Witness ==
    /\ pc = "normalized"
    /\ NCols(data) >= 3
    /\ \E i \in 2..NRows(data) :
          /\ IsAffineImage(data[i], data[1])
          /\ data[i] # data[1]
          /\ data_out[i] = data[1]

----------------------------------------------------------------------------
(* The trimming functions on a matrix of scans *)

TrimDims ==
    {nm \in (2..MaxTrimRows) \X (1..MaxTrimCols) : nm[1] * nm[2] <= MaxTrimCells}

TrimRowsOfDim(nm) == [1..nm[1] -> [1..nm[2] -> 0..MaxTrimVal]]

\* fit_trimmed(est, data, 0.4)
LofTrimFraction == <<2, 5>>

TrimFractions == {DefaultTrimFraction, LofTrimFraction}

TrimThresholds == {1, DefaultTrimThreshold}

TrimInit ==
    /\ pc = "matrix"
    /\ \E nm \in TrimDims : \E rows \in TrimRowsOfDim(nm) : data = IntMatrix(rows)
    /\ threshold = DefaultTrimThreshold
    /\ data_out = <<>>
    /\ scored = <<>>
    /\ mod_chisq = <<>>
    /\ labels = <<>>
    /\ avg = NoAvg
    /\ est = NoEst
    /\ exc = "none"
    /\ trim = NoTrim
    /\ dfs = <<>>
    /\ master_idx = 1
    /\ dfs_out = NoCall
    /\ dfs_again = NoCall
    /\ ret = NoRet

\* check_for_outliers(all_data, trim_fraction, threshold)
CheckForOutliers ==
    /\ pc = "matrix"
    /\ \E trim_fraction \in TrimFractions : \E t \in TrimThresholds :
          /\ trim' = check_for_outliers(data, trim_fraction, t)
          /\ threshold' = t
    /\ exc' = trim'.raised
    /\ pc' = "checked"
    /\ UNCHANGED <<data, data_out, scored, mod_chisq, labels, avg, est, GridVars>>

\* the trimmed_lof statements of a channel: est = LocalOutlierFactor(),
\* fit_trimmed(est, data, 0.4), lof_results = est.predict(data_prenorm),
\* np.mean(data[lof_results > 0], axis=0)
TrimmedLOF ==
    /\ pc = "normalized"
    /\ IF TrimTooBig(data, RDiv(LofTrimFraction, Int2R(2)))
       THEN /\ exc' = "ValueError"
            /\ UNCHANGED <<est, labels, avg>>
       ELSE /\ exc' = "none"
            /\ \E prediction \in LabelVectors(NRows(data_out)) :
                  /\ est' = [fit_trimmed(data, LofTrimFraction)
                                EXCEPT !.predicted_on = data_out,
                                       !.prediction = prediction]
                  /\ labels' = prediction
                  /\ avg' = inlier_mean(data, prediction)
    /\ pc' = "trimmed_lof"
    /\ UNCHANGED <<data, data_out, scored, mod_chisq, threshold, GridVars, trim>>

TrimNext == CheckForOutliers \/ Prenormalize \/ TrimmedLOF

SpecTrim == TrimInit /\ [][TrimNext]_vars

----------------------------------------------------------------------------
(* Properties of the trimming functions *)

\* C11: check_for_outliers on n rows with trim fraction t takes each column's
\* trimmed mean and standard deviation after discarding floor(n*t/2) lowest
\* and floor(n*t/2) highest values of the column; every row gets a score, in
\* row order, and its mask entry is true iff the score exceeds the threshold
C11_HalfFractionEachEnd ==
    (pc = "checked" /\ trim.raised = "none") =>
        LET half == RDiv(trim.trim_fraction, Int2R(2))
            claimed == check_for_outliers_cut(data, trim.trim_fraction, half,
                                              threshold)
        IN  /\ Len(trim.deviation_from_mean) = NRows(data)
            /\ trim.deviation_from_mean = claimed.deviation_from_mean
            /\ \A i \in 1..NRows(data) :
                  trim.outliers[i] <=> ExtGt(trim.deviation_from_mean[i], threshold)

\* C12: the trimmed-fit density classifier of a channel is fitted on a
\* trimmed subset of the normalized matrix and predicts on the full
\* normalized matrix; the original matrix is used only for averaging
C12_FittedOnNormalized ==
    (pc = "trimmed_lof" /\ exc = "none") =>
        /\ est.fitted
        /\ est.X = trimboth(data_out, RDiv(LofTrimFraction, Int2R(2)))
        /\ est.predicted_on = data_out
        /\ avg = inlier_mean(data, labels)

====
